---- MODULE Spec2Model ----
(***************************************************************************)
(* Hybrid retrieval ranking engine of documesh:                            *)
(*   src/src/search/similarity.py  rank_results                            *)
(*   src/src/search/ranking.py     calculate_relevance_score,              *)
(*                                 rank_document_list, diversify_results   *)
(*   src/src/api/routes/search.py  hybrid_search                           *)
(*                                                                         *)
(* The functions are pure: a behaviour is one call, from the pending call  *)
(* (Init draws the function and its arguments) to its return or raise.     *)
(*                                                                         *)
(* Python floats are modelled as extended rationals [n, d]: d > 0 is the   *)
(* finite value n/d in lowest terms, d = 0 is a non-finite float (n = -1   *)
(* is -inf, n = 1 is +inf, n = 0 is NaN).  Arithmetic is exact: the        *)
(* rounding of binary floating point is not modelled.  Scores are written  *)
(* in hundredths and weights in tenths.                                    *)
(*                                                                         *)
(* Dicts are records; an optional key is a field the record may lack.      *)
(* Match records are those search_text_similarity and                      *)
(* search_visual_similarity build, so they always carry match_type.        *)
(***************************************************************************)
EXTENDS Integers, Sequences, FiniteSets, TLC

\* ------------------------------------------------------------------ bounds
\* longest text_results / visual_results list
MaxLen == 2

\* longest list handed to rank_document_list or diversify_results
MaxDocs == 3

\* ------------------------------------------------------------- float layer
Abs(i) == IF i < 0 THEN -i ELSE i

Sign(i) == IF i < 0 THEN -1 ELSE IF i > 0 THEN 1 ELSE 0

RECURSIVE GCD(_, _)
GCD(a, b) == IF b = 0 THEN a ELSE GCD(b, a % b)

\* the finite float n/d (d # 0), in lowest terms with a positive denominator
Rat(n, d) ==
    LET g == GCD(Abs(n), Abs(d))
    IN  [n |-> (Sign(d) * n) \div g, d |-> Abs(d) \div g]

\* a score given in hundredths: S(85) is the float 0.85
S(k) == Rat(k, 100)

Zero == Rat(0, 1)

One == Rat(1, 1)

NegInf == [n |-> -1, d |-> 0]

NaN == [n |-> 0, d |-> 0]

IsFinite(x) == x.d # 0

IsNaN(x) == x.d = 0 /\ x.n = 0

FMul(a, b) ==
    IF IsFinite(a) /\ IsFinite(b) THEN Rat(a.n * b.n, a.d * b.d)
    ELSE [n |-> Sign(a.n) * Sign(b.n), d |-> 0]

FAdd(a, b) ==
    IF IsFinite(a) /\ IsFinite(b) THEN Rat(a.n * b.d + b.n * a.d, a.d * b.d)
    ELSE IF IsNaN(a) \/ IsNaN(b) THEN NaN
    ELSE IF ~IsFinite(a) /\ ~IsFinite(b) THEN (IF a.n = b.n THEN a ELSE NaN)
    ELSE IF IsFinite(a) THEN b ELSE a

FNeg(a) == [n |-> -a.n, d |-> a.d]

FSub(a, b) == FAdd(a, FNeg(b))

\* a > b on floats: every comparison with NaN is false, -inf > -inf is false
FGt(a, b) ==
    IF IsNaN(a) \/ IsNaN(b) THEN FALSE
    ELSE IF IsFinite(a) /\ IsFinite(b) THEN a.n * b.d > b.n * a.d
    ELSE IF IsFinite(a) THEN b.n < 0
    ELSE IF IsFinite(b) THEN a.n > 0
    ELSE a.n > b.n

\* Python's max(a, b): the first argument unless the second is greater
FMax(a, b) == IF FGt(b, a) THEN b ELSE a

\* ------------------------------------------------------------ dict helpers
\* dict.get(key, default)
Get(doc, key, default) == IF key \in DOMAIN doc THEN doc[key] ELSE default

\* a membership test that never finds the element
ContainsNever(seq, x) == FALSE

\* "x in list"
Contains(seq, x) == \E i \in 1..Len(seq) : seq[i] = x

\* a descending sort that puts an element before the elements of equal key
RECURSIVE InsertDescUnstable(_, _, _)
InsertDescUnstable(sorted, x, key) ==
    IF sorted = <<>> THEN <<x>>
    ELSE IF ~FGt(Head(sorted)[key], x[key]) THEN <<x>> \o sorted
    ELSE <<Head(sorted)>> \o InsertDescUnstable(Tail(sorted), x, key)

\* list.sort(key=..., reverse=True): stable, descending; Key(x) is the sort
\* key, an element goes after every element whose key is not smaller
RECURSIVE InsertDesc(_, _, _)
InsertDesc(sorted, x, key) ==
    IF sorted = <<>> THEN <<x>>
    ELSE IF FGt(x[key], Head(sorted)[key]) THEN <<x>> \o sorted
    ELSE <<Head(sorted)>> \o InsertDesc(Tail(sorted), x, key)

RECURSIVE SortDesc(_, _)
SortDesc(seq, key) ==
    IF seq = <<>> THEN <<>>
    ELSE InsertDesc(SortDesc(SubSeq(seq, 1, Len(seq) - 1), key), seq[Len(seq)], key)

\* ------------------------------------------------------------------ inputs
\* a float weight given in tenths: W(6) is 0.6
W(k) == Rat(k, 10)

\* metadata values: [kind, v]; kind "absent" is a key the dict does not have
Absent == [kind |-> "absent", v |-> 0]

IntVal(k) == [kind |-> "int", v |-> k]

StrVal == [kind |-> "str", v |-> 0]

\* a datetime, given by (today - created_date).days
DateVal(days) == [kind |-> "datetime", v |-> days]

Meta(cd, vc) == [created_date |-> cd, view_count |-> vc]

EmptyMeta == Meta(Absent, Absent)

\* a record as search_text_similarity builds it
TextRec(id, score, meta) ==
    [document_id |-> id, filename |-> id \o ".pdf", similarity_score |-> S(score),
     match_type |-> "text", metadata |-> meta]

\* a record as search_visual_similarity builds it
VisualRec(id, diagram, score, meta) ==
    [document_id |-> id, diagram_index |-> diagram, filename |-> id \o ".pdf",
     similarity_score |-> S(score), match_type |-> "visual", metadata |-> meta]

\* the record of a document stored under another filename
Renamed(result) == [result EXCEPT !.filename = "renamed.pdf"]

TextRecords ==
    { TextRec("doc-123", 85, EmptyMeta), TextRec("doc-456", 75, EmptyMeta),
      Renamed(TextRec("doc-123", 40, Meta(Absent, IntVal(1000)))),
      TextRec("doc-456", 95, Meta(DateVal(0), Absent)) }

VisualRecords ==
    { VisualRec("doc-789", 0, 90, EmptyMeta), VisualRec("doc-123", 1, 65, EmptyMeta),
      VisualRec("doc-123", 0, -20, EmptyMeta),
      VisualRec("doc-789", 1, 95, Meta(Absent, IntVal(10))),
      VisualRec("doc-123", 2, 95, EmptyMeta) }

\* the index matches the hybrid search route is run on
HybridTextMatches ==
    { TextRec("doc-123", 85, EmptyMeta), TextRec("doc-456", 40, EmptyMeta) }

HybridVisualMatches ==
    { VisualRec("doc-789", 0, 95, EmptyMeta), VisualRec("doc-123", 1, 90, EmptyMeta),
      VisualRec("doc-321", 0, 90, EmptyMeta) }

\* weight pairs in tenths; <<0, 0>> and <<5, -5>> sum to zero
WeightPairs == { <<6, 4>>, <<1, 3>>, <<0, 0>>, <<5, -5>> }

\* all lists over a set, up to MaxLen long
ListsOf(set) == UNION { [1..n -> set] : n \in 0..MaxLen }

\* ------------------------------------------------ similarity.py rank_results
\* a raised exception / a returned value
Raise(e) == [exc |-> e, ret |-> <<>>]

Return(v) == [exc |-> "none", ret |-> v]

\* a division that never raises (IEEE semantics)
DivNeverRaises(a, b) == FALSE

\* Python float division a / b raises ZeroDivisionError when b == 0.0
DivRaises(a, b) == b = Zero

\* the weight left as given, not divided by the total
FDivSkipped(a, b) == a

\* a / b (IEEE result where Python has already raised)
FDiv(a, b) ==
    IF IsFinite(a) /\ IsFinite(b) /\ b.n # 0 THEN Rat(a.n * b.d, a.d * b.n)
    ELSE [n |-> Sign(a.n) * (IF b.n < 0 THEN -1 ELSE 1), d |-> 0]

\* the weights used as given
UnnormalizedWeights(tw, vw) == <<tw, vw>>

\* similarity.py:266-268 and ranking.py:29-31: each weight divided by the sum
NormalizedWeights(tw, vw) ==
    LET total_weight == FAdd(tw, vw)
    IN  <<FDiv(tw, total_weight), FDiv(vw, total_weight)>>

\* position of document_id in the insertion-ordered dict, 0 when absent
KeyIndex(combined_results, document_id) ==
    IF \E i \in 1..Len(combined_results) : combined_results[i].document_id = document_id
    THEN CHOOSE i \in 1..Len(combined_results) : combined_results[i].document_id = document_id
    ELSE 0

NewEntry(result) ==
    [document_id |-> result.document_id,
     filename |-> Get(result, "filename", ""),
     metadata |-> Get(result, "metadata", EmptyMeta),
     text_score |-> Zero, visual_score |-> Zero, combined_score |-> Zero,
     match_types |-> <<>>]

\* an entry appended for every result, also for a known document_id
WithEntryAlways(combined_results, result) == Append(combined_results, NewEntry(result))

\* combined_results with an entry for the result's document_id
WithEntry(combined_results, result) ==
    IF KeyIndex(combined_results, result.document_id) = 0
    THEN Append(combined_results, NewEntry(result))
    ELSE combined_results

\* an iteration that keeps the best text score, as the visual loop does
ProcessTextResultKeepBest(combined_results, result) ==
    LET c  == WithEntry(combined_results, result)
        i  == KeyIndex(c, result.document_id)
        e1 == [c[i] EXCEPT !.text_score = FMax(@, result.similarity_score)]
        e2 == IF "match_type" \in DOMAIN result /\ ~Contains(e1.match_types, "text")
              THEN [e1 EXCEPT !.match_types = Append(@, "text")]
              ELSE e1
    IN  [c EXCEPT ![i] = e2]

\* an iteration that raises the score of a much-viewed document by 10%
ProcessTextResultBoosted(combined_results, result) ==
    LET c  == WithEntry(combined_results, result)
        i  == KeyIndex(c, result.document_id)
        vc == result.metadata.view_count
        e1 == [c[i] EXCEPT !.text_score =
                  IF vc.kind = "int" /\ vc.v > 0
                  THEN FMul(result.similarity_score, Rat(11, 10))
                  ELSE result.similarity_score]
        e2 == IF "match_type" \in DOMAIN result /\ ~Contains(e1.match_types, "text")
              THEN [e1 EXCEPT !.match_types = Append(@, "text")]
              ELSE e1
    IN  [c EXCEPT ![i] = e2]

\* one iteration of "for result in text_results"
ProcessTextResult(combined_results, result) ==
    LET c  == WithEntry(combined_results, result)
        i  == KeyIndex(c, result.document_id)
        e1 == [c[i] EXCEPT !.text_score = result.similarity_score]
        e2 == IF "match_type" \in DOMAIN result /\ ~Contains(e1.match_types, "text")
              THEN [e1 EXCEPT !.match_types = Append(@, "text")]
              ELSE e1
    IN  [c EXCEPT ![i] = e2]

\* one iteration of "for result in visual_results"
ProcessVisualResult(combined_results, result) ==
    LET c  == WithEntry(combined_results, result)
        i  == KeyIndex(c, result.document_id)
        e1 == [c[i] EXCEPT !.visual_score = FMax(@, result.similarity_score)]
        e2 == IF "match_type" \in DOMAIN result /\ ~Contains(e1.match_types, "visual")
              THEN [e1 EXCEPT !.match_types = Append(@, "visual")]
              ELSE e1
        e3 == IF "diagrams" \notin DOMAIN e2 THEN e2 @@ [diagrams |-> <<>>] ELSE e2
        e4 == IF "diagram_index" \in DOMAIN result
              THEN [e3 EXCEPT !.diagrams =
                        Append(@, [index |-> result.diagram_index,
                                   similarity_score |-> result.similarity_score])]
              ELSE e3
    IN  [c EXCEPT ![i] = e4]

RECURSIVE ProcessText(_, _)
ProcessText(combined_results, results) ==
    IF results = <<>> THEN combined_results
    ELSE ProcessText(ProcessTextResult(combined_results, Head(results)), Tail(results))

RECURSIVE ProcessVisual(_, _)
ProcessVisual(combined_results, results) ==
    IF results = <<>> THEN combined_results
    ELSE ProcessVisual(ProcessVisualResult(combined_results, Head(results)), Tail(results))

\* a merge that gives up when there is no text result
MergeResultsTextRequired(text_results_, visual_results_) ==
    IF text_results_ = <<>> THEN <<>>
    ELSE ProcessVisual(ProcessText(<<>>, text_results_), visual_results_)

\* the dict after both loops
MergeResults(text_results_, visual_results_) ==
    ProcessVisual(ProcessText(<<>>, text_results_), visual_results_)

\* the weighted average taken whatever the match types
CombinedScoreAlwaysWeighted(data, tw, vw) ==
    FAdd(FMul(tw, data.text_score), FMul(vw, data.visual_score))

\* the body of "for document_id, data in combined_results.items()"
CombinedScore(data, tw, vw) ==
    IF Contains(data.match_types, "text") /\ Contains(data.match_types, "visual")
    THEN FAdd(FMul(tw, data.text_score), FMul(vw, data.visual_score))
    ELSE IF Contains(data.match_types, "text") THEN data.text_score
    ELSE IF Contains(data.match_types, "visual") THEN data.visual_score
    ELSE data.combined_score

\* lines 326-344: the combined score of every merged record, then the sort
ScoredResults(combined_results, ntw, nvw) ==
    SortDesc([i \in 1..Len(combined_results) |->
                [combined_results[i] EXCEPT
                   !.combined_score = CombinedScore(combined_results[i], ntw, nvw)]],
             "combined_score")

rank_results(text_results_, visual_results_, tw, vw) ==
    LET total_weight == FAdd(tw, vw)
        ntw == NormalizedWeights(tw, vw)[1]
        nvw == NormalizedWeights(tw, vw)[2]
        combined_results == MergeResults(text_results_, visual_results_)
    IN  IF DivRaises(tw, total_weight) THEN Raise("ZeroDivisionError")
        ELSE Return(ScoredResults(combined_results, ntw, nvw))

\* ------------------------------------- ranking.py calculate_relevance_score
\* the first argument whatever the second is
FMinFirst(a, b) == a

\* Python's min(a, b): the first argument unless the second is smaller
FMin(a, b) == IF FGt(a, b) THEN b ELSE a

\* math.log10 on the powers of ten the model draws view_count from
RECURSIVE Log10(_)
Log10(v) == IF v < 10 THEN 0 ELSE 1 + Log10(v \div 10)

\* "if metadata:" - a dict is true when it has a key
MetadataTruthy(metadata) ==
    metadata.created_date.kind # "absent" \/ metadata.view_count.kind # "absent"

\* lines 39-49: the recency adjustment of the weighted score
RecencyAdjusted(weighted_score, metadata) ==
    LET created_date == metadata.created_date
        days_old == created_date.v
        recency_boost == FSub(One, FMul(Rat(days_old, 30), Rat(1, 10)))
    IN  IF created_date.kind = "datetime" /\ days_old < 30
        THEN FMul(weighted_score, recency_boost)
        ELSE weighted_score

\* line 54: "view_count > 0" raises TypeError unless view_count is a number
ViewCountRaises(metadata) ==
    metadata.view_count.kind \notin {"absent", "int"}

\* lines 52-56: the popularity adjustment of the weighted score
PopularityAdjusted(weighted_score, metadata) ==
    LET view_count == metadata.view_count
        popularity_boost ==
            FMin(FAdd(One, FMul(Rat(Log10(view_count.v), 1), Rat(5, 100))), Rat(11, 10))
    IN  IF view_count.kind = "int" /\ view_count.v > 0
        THEN FMul(weighted_score, popularity_boost)
        ELSE weighted_score

\* line 34
WeightedScore(text_score_, visual_score_, tw, vw) ==
    FAdd(FMul(tw, text_score_), FMul(vw, visual_score_))

calculate_relevance_score(text_score_, visual_score_, tw, vw, metadata_) ==
    LET total_weight == FAdd(tw, vw)
        ntw == NormalizedWeights(tw, vw)[1]
        nvw == NormalizedWeights(tw, vw)[2]
        weighted_score == WeightedScore(text_score_, visual_score_, ntw, nvw)
    IN  IF DivRaises(tw, total_weight) THEN Raise("ZeroDivisionError")
        ELSE IF ~MetadataTruthy(metadata_) THEN Return(weighted_score)
        ELSE IF ViewCountRaises(metadata_) THEN Raise("TypeError")
        ELSE Return(PopularityAdjusted(RecencyAdjusted(weighted_score, metadata_),
                                       metadata_))

\* -------------------------------------------- ranking.py rank_document_list
\* doc[key] = value
SetKey(doc, key, value) ==
    [k \in DOMAIN doc \cup {key} |-> IF k = key THEN value ELSE doc[k]]

\* "if query_context:" - None and {} are false
ContextTruthy(query_context_) == DOMAIN query_context_ # {}

\* the two flags tested in the other order, so that visual_emphasis wins
ContextWeightsVisualWins(query_context_) ==
    LET w0 == <<W(6), W(4)>>
        w1 == IF ContextTruthy(query_context_)
                 /\ Get(query_context_, "text_emphasis", FALSE)
              THEN <<W(7), W(3)>> ELSE w0
        w2 == IF ContextTruthy(query_context_)
                 /\ Get(query_context_, "visual_emphasis", FALSE)
              THEN <<W(4), W(6)>> ELSE w1
    IN  w2

\* lines 86-100: the <<text_weight, visual_weight>> of one document
ContextWeights(query_context_) ==
    LET w0 == <<W(6), W(4)>>
        w1 == IF ContextTruthy(query_context_)
                 /\ Get(query_context_, "visual_emphasis", FALSE)
              THEN <<W(4), W(6)>> ELSE w0
        w2 == IF ContextTruthy(query_context_)
                 /\ Get(query_context_, "text_emphasis", FALSE)
              THEN <<W(7), W(3)>> ELSE w1
    IN  w2

\* lines 80-105: the call of calculate_relevance_score for one document
DocRelevance(doc, query_context_) ==
    LET w == ContextWeights(query_context_)
    IN  calculate_relevance_score(Get(doc, "text_score", Zero),
                                  Get(doc, "visual_score", Zero),
                                  w[1], w[2], Get(doc, "metadata", EmptyMeta))

rank_document_list(documents_, query_context_) ==
    LET scores == [i \in 1..Len(documents_) |-> DocRelevance(documents_[i], query_context_)]
        scored == [i \in 1..Len(documents_) |->
                     SetKey(documents_[i], "relevance_score", scores[i].ret)]
    IN  IF \E i \in 1..Len(documents_) : scores[i].exc # "none"
        THEN Raise(scores[CHOOSE i \in 1..Len(documents_) :
                            /\ scores[i].exc # "none"
                            /\ \A j \in 1..(i - 1) : scores[j].exc = "none"].exc)
        ELSE Return(SortDesc(scored, "relevance_score"))

\* ranked_docs = documents: the working list is the caller's list itself
SameObject(obj) == [shared |-> TRUE, value |-> obj]

\* line 77, copy.deepcopy(documents): an equal list sharing nothing with the
\* caller's, neither the list nor its dictionaries
deepcopy(obj) == [shared |-> FALSE, value |-> obj]

\* lines 80-108: the working list when the call ends; a raise leaves the
\* documents before the failing one scored and the list unsorted
WorkingList(ranked_docs_, query_context_) ==
    LET scores == [i \in 1..Len(ranked_docs_) |-> DocRelevance(ranked_docs_[i], query_context_)]
        Scored(i) == SetKey(ranked_docs_[i], "relevance_score", scores[i].ret)
        failed == { i \in 1..Len(ranked_docs_) : scores[i].exc # "none" }
    IN  IF failed = {}
        THEN SortDesc([i \in 1..Len(ranked_docs_) |-> Scored(i)], "relevance_score")
        ELSE [i \in 1..Len(ranked_docs_) |->
                IF \A j \in failed : i < j THEN Scored(i) ELSE ranked_docs_[i]]

\* the caller's documents list when rank_document_list ends
DocumentsAfterCall(documents_, query_context_) ==
    LET ranked_docs_ == deepcopy(documents_)
    IN  IF ranked_docs_.shared THEN WorkingList(ranked_docs_.value, query_context_)
        ELSE documents_

\* --------------------------------------------- ranking.py diversify_results
\* line 144: the key the relevance component is read from
RelevanceKey == "relevance_score"

\* candidate.get(key, 0.0)
RelevanceScore(candidate, key) == Get(candidate, key, Zero)

\* set(doc.get("match_types", []))
TypeSet(doc) == LET m == Get(doc, "match_types", <<>>) IN { m[i] : i \in 1..Len(m) }

Max3(a, b, c) ==
    IF a >= b /\ a >= c THEN a ELSE IF b >= c THEN b ELSE c

\* two records are similar only when they are the same document
SimilarityByIdOnly(candidate, selected_doc) ==
    IF candidate.document_id = selected_doc.document_id THEN One ELSE Zero

\* lines 151-160
Similarity(candidate, selected_doc) ==
    IF candidate.document_id = selected_doc.document_id THEN One
    ELSE Rat(Cardinality(TypeSet(candidate) \cap TypeSet(selected_doc)),
             Max3(Cardinality(TypeSet(candidate)), Cardinality(TypeSet(selected_doc)), 1))

\* lines 147-162: the scan of the documents already selected
RECURSIVE MaxSimilarity(_, _, _)
MaxSimilarity(max_similarity, candidate, selected) ==
    IF selected = <<>> THEN max_similarity
    ELSE MaxSimilarity(FMax(max_similarity, Similarity(candidate, Head(selected))),
                       candidate, Tail(selected))

\* lines 166-167, the relevance component read from key
MmrScore(candidate, diversified_results, key) ==
    LET lambda_val == Rat(7, 10)
    IN  FSub(FMul(lambda_val, RelevanceScore(candidate, key)),
             FMul(FSub(One, lambda_val), MaxSimilarity(Zero, candidate, diversified_results)))

\* a test that also lets a later candidate of equal score take over
ImprovesOrTies(mmr_score, max_mmr_score) == ~FGt(max_mmr_score, mmr_score)

\* the test of line 169
Improves(mmr_score, max_mmr_score) == FGt(mmr_score, max_mmr_score)

\* lines 139-171: the scan of the candidates from position i on; best is
\* <<max_mmr_score, best_candidate_idx>>, index 0 standing for Python's -1
RECURSIVE ScanCandidates(_, _, _, _, _)
ScanCandidates(best, i, candidates, diversified_results, key) ==
    IF i > Len(candidates) THEN best
    ELSE LET mmr_score == MmrScore(candidates[i], diversified_results, key)
         IN  ScanCandidates(IF Improves(mmr_score, best[1]) THEN <<mmr_score, i>> ELSE best,
                            i + 1, candidates, diversified_results, key)

\* the scan with max_mmr_score seeded with 0.0 instead of -inf
BestCandidateIdxFromZero(candidates, diversified_results, key) ==
    ScanCandidates(<<Zero, 0>>, 1, candidates, diversified_results, key)[2]

BestCandidateIdx(candidates, diversified_results, key) ==
    ScanCandidates(<<NegInf, 0>>, 1, candidates, diversified_results, key)[2]

\* the first element removed instead of the i-th
PopFirst(seq, i) == Tail(seq)

\* list.pop(i)
Pop(seq, i) == SubSeq(seq, 1, i - 1) \o SubSeq(seq, i + 1, Len(seq))

\* lines 137-178: the while loop
RECURSIVE MmrLoop(_, _, _, _)
MmrLoop(diversified_results, candidates, n, key) ==
    IF candidates = <<>> \/ ~(Len(diversified_results) < n) THEN diversified_results
    ELSE LET best_candidate_idx == BestCandidateIdx(candidates, diversified_results, key)
         IN  IF best_candidate_idx >= 1
             THEN MmrLoop(Append(diversified_results, candidates[best_candidate_idx]),
                          Pop(candidates, best_candidate_idx), n, key)
             ELSE diversified_results

\* the candidates scanned from the end of the list
MmrReversedCandidates(ranked_docs_, key) ==
    IF ranked_docs_ = <<>> THEN <<>>
    ELSE MmrLoop(<<Head(ranked_docs_)>>,
                 [i \in 1..(Len(ranked_docs_) - 1) |-> ranked_docs_[Len(ranked_docs_) + 1 - i]],
                 Len(ranked_docs_), key)

\* the selection started from an empty list, the first element chosen by
\* score like the others
MmrBestFirst(ranked_docs_, key) ==
    MmrLoop(<<>>, ranked_docs_, Len(ranked_docs_), key)

\* the algorithm, the relevance component read from key
Mmr(ranked_docs_, key) ==
    IF ranked_docs_ = <<>> THEN <<>>
    ELSE MmrLoop(<<Head(ranked_docs_)>>, Tail(ranked_docs_), Len(ranked_docs_), key)

diversify_results(ranked_docs_) == Mmr(ranked_docs_, RelevanceKey)

\* ------------------------------------------- api/routes/search.py hybrid_search
\* the whole list whatever k
TakeAll(seq, k) == seq

\* list[:k] for k >= 0
Take(seq, k) == SubSeq(seq, 1, IF k < Len(seq) THEN k ELSE Len(seq))

\* similarity.py lines 236-240: the matches sorted by score, the top_k kept
TopVisual(all_results, top_k) == Take(SortDesc(all_results, "similarity_score"), top_k)

\* lines 214-229; an exception becomes the HTTP 500 of line 235
hybrid_search(text_matches, visual_matches, limit_, tw, vw) ==
    LET combined_results == rank_results(text_matches, TopVisual(visual_matches, limit_), tw, vw)
        diverse_results == diversify_results(combined_results.ret)
    IN  IF combined_results.exc # "none" THEN Raise("HTTPException")
        ELSE Return(Take(diverse_results, limit_))

\* ------------------------------------- similarity.py search_text_similarity
\* one external call: the operation and, for an index query, num_neighbors
Call(op, num_neighbors) == [op |-> op, num_neighbors |-> num_neighbors]

\* db.collection("documents").document(id).get() on the store
Lookup(store_, id) == IF id \in DOMAIN store_ THEN store_[id] ELSE [exists |-> FALSE]

\* lines 151-157: the record appended for a match whose document exists
TextResult(match, doc_data) ==
    [document_id |-> match.id,
     filename |-> Get(doc_data, "filename", ""),
     similarity_score |-> match.distance,
     match_type |-> "text",
     metadata |-> Get(doc_data, "metadata", EmptyMeta)]

\* a loop that appends a record for every match, stored or not
RECURSIVE TextResultsUnchecked(_, _)
TextResultsUnchecked(matches, store_) ==
    IF matches = <<>> THEN <<>>
    ELSE <<TextResult(Head(matches), Lookup(store_, Head(matches).id))>>
            \o TextResultsUnchecked(Tail(matches), store_)

\* lines 140-159: "for match in response[0]", in the order of the response
RECURSIVE TextResults(_, _)
TextResults(matches, store_) ==
    IF matches = <<>> THEN <<>>
    ELSE LET doc == Lookup(store_, Head(matches).id)
         IN  (IF doc.exists THEN <<TextResult(Head(matches), doc)>> ELSE <<>>)
                \o TextResults(Tail(matches), store_)

\* lines 111-163. backend_ names the external call that raises, "ok" when
\* none does; every exception ends in "return []" (lines 161-163). The value
\* carries the external calls made.
search_text_similarity(response_, store_, top_k_, backend_) ==
    LET match_call == <<Call("match", top_k_)>>
    IN  IF backend_ = "endpoint" THEN [ret |-> <<>>, exc |-> "none", calls |-> <<>>]
        ELSE IF backend_ = "match" THEN [ret |-> <<>>, exc |-> "none", calls |-> match_call]
        ELSE IF response_ = <<>> THEN [ret |-> <<>>, exc |-> "none", calls |-> match_call]
        ELSE IF backend_ = "store" /\ response_[1] # <<>>
             THEN [ret |-> <<>>, exc |-> "none", calls |-> match_call]
        ELSE [ret |-> TextResults(response_[1], store_), exc |-> "none",
              calls |-> match_call]

\* ------------------------------------- similarity.py find_similar_documents
\* the document_id passed when one is given
ReferenceDocument == "doc-123"

\* lines 182-244 as far as find_similar_documents depends on them: the
\* records built from the matches of all embeddings, sorted and cut to top_k;
\* [] when a call to the index or the store raises (lines 242-244)
search_visual_similarity(all_results, top_k_, backend_) ==
    IF backend_ \in {"endpoint", "match", "store"} THEN <<>>
    ELSE TopVisual(all_results, top_k_)

\* lines 48-92. given_ holds the names of the arguments that are truthy;
\* only the searches catch their exceptions, so a failing store read of line
\* 57 or a failing embedding call of lines 68, 72 leaves the function
find_similar_documents(given_, store_, response_, all_results, top_k_, backend_) ==
    LET doc == Lookup(store_, ReferenceDocument)
        by_document == "document_id" \in given_
        by_text == ~by_document /\ "text_query" \in given_
        by_image == ~by_document /\ ~by_text /\ "image_content" \in given_
        text_embedding == IF by_document THEN Get(doc, "text_embedding", FALSE) ELSE by_text
        visual_embeddings == IF by_document THEN Get(doc, "visual_embeddings", 0)
                             ELSE IF by_image THEN 1 ELSE 0
        embed_calls == IF by_text THEN <<Call("generate_text_embedding", 0)>>
                       ELSE IF by_image THEN <<Call("generate_visual_embedding", 0)>>
                       ELSE <<>>
        text_search == search_text_similarity(response_, store_, top_k_, backend_)
        text_results_ == IF text_embedding THEN text_search.ret ELSE <<>>
        visual_results_ == IF visual_embeddings > 0
                           THEN search_visual_similarity(all_results, top_k_, backend_)
                           ELSE <<>>
        search_calls == (IF text_embedding THEN text_search.calls ELSE <<>>)
                           \o (IF visual_embeddings > 0 /\ backend_ # "endpoint"
                               THEN <<Call("match_visual", top_k_)>>
                               ELSE <<>>)
        combined_results == rank_results(text_results_, visual_results_, W(6), W(4))
    IN  IF given_ = {} THEN [ret |-> <<>>, exc |-> "ValueError", calls |-> <<>>]
        ELSE IF by_document /\ backend_ = "store"
        THEN [ret |-> <<>>, exc |-> "GoogleAPIError", calls |-> <<>>]
        ELSE IF by_document /\ ~doc.exists
        THEN [ret |-> <<>>, exc |-> "ValueError", calls |-> <<>>]
        ELSE IF ~by_document /\ backend_ = "embedding"
        THEN [ret |-> <<>>, exc |-> "EmbeddingError", calls |-> embed_calls]
        ELSE [ret |-> Take(combined_results.ret, top_k_), exc |-> "none",
              calls |-> embed_calls \o search_calls]

\* --------------------------------------- api/routes/search.py search_by_text
\* lines 64-67: the context the route builds; the query text is not read by
\* the ranking
TextQueryContext == [text_emphasis |-> TRUE, query |-> "query"]

\* "request.limit or 10"
LimitOrTen(limit_) == IF limit_ = 0 THEN 10 ELSE limit_

\* lines 49-84: embedding, search, ranking, diversification; an exception
\* becomes the HTTP 500 of line 84
search_by_text(response_, store_, limit_, backend_) ==
    LET embed_call == <<Call("generate_text_embedding", 0)>>
        results == search_text_similarity(response_, store_, LimitOrTen(limit_), backend_)
        ranked_results == rank_document_list(results.ret, TextQueryContext)
        diverse_results == diversify_results(ranked_results.ret)
    IN  IF backend_ = "embedding"
        THEN [ret |-> <<>>, exc |-> "HTTPException", calls |-> embed_call]
        ELSE IF ranked_results.exc # "none"
        THEN [ret |-> <<>>, exc |-> "HTTPException", calls |-> embed_call \o results.calls]
        ELSE [ret |-> diverse_results, exc |-> "none", calls |-> embed_call \o results.calls]

\* -------------------------------------------------------------- the machine
\* fn             the function called
\* pc             where the call stands: "call", "return" or "raise"
\* text_results, visual_results, text_weight, visual_weight
\*                the arguments of rank_results (similarity.py:247-252); for
\*                hybrid_search the matches of the two indexes and the form's
\*                weights (search.py:175-176)
\* limit          the limit of hybrid_search (search.py:174)
\* text_score, visual_score, metadata
\*                the arguments of calculate_relevance_score (ranking.py:8-14)
\* documents, query_context
\*                the arguments of rank_document_list (ranking.py:61-64)
\* ranked_docs    the argument of diversify_results (ranking.py:113-116)
\* response       the answer of the text index to index_endpoint.match
\*                (similarity.py:131-136): one list of matches per query
\* store          the documents collection read at similarity.py:56-57, 146-147
\* top_k          the top_k of search_text_similarity and
\*                find_similar_documents (similarity.py:32, 97)
\* backend        the external call that raises during this call, "ok" when
\*                none does
\* given          which of document_id, text_query and image_content
\*                find_similar_documents is given (similarity.py:29-31)
\* ret, exc       the value returned; the exception raised, "none" when none
\* calls          the calls made to the embedding service and the index
\* threads        the concurrent invocations (ConcurrentSpec): for each its
\*                function, its position, its loop index, its local
\*                variables and its outcome; empty when one call runs alone
VARIABLES fn, pc, text_results, visual_results, text_weight, visual_weight, limit,
          text_score, visual_score, metadata, documents, query_context, ranked_docs,
          response, store, top_k, backend, given, ret, exc, calls, threads

vars == <<fn, pc, text_results, visual_results, text_weight, visual_weight, limit,
          text_score, visual_score, metadata, documents, query_context, ranked_docs,
          response, store, top_k, backend, given, ret, exc, calls, threads>>

args == <<fn, text_weight, visual_weight, limit, text_score, visual_score, metadata,
          query_context, response, store, top_k, backend, given, threads>>

\* the metadata dicts of the model: none, well-formed and malformed values
Metadatas ==
    { EmptyMeta, Meta(Absent, IntVal(-3)), Meta(Absent, StrVal), Meta(StrVal, Absent),
      Meta(Absent, IntVal(1)), Meta(Absent, IntVal(10)), Meta(Absent, IntVal(100)),
      Meta(Absent, IntVal(1000)), Meta(Absent, IntVal(100000)),
      Meta(DateVal(0), Absent), Meta(DateVal(15), Absent), Meta(DateVal(29), Absent),
      Meta(DateVal(30), Absent), Meta(DateVal(15), IntVal(10)),
      Meta(DateVal(45), IntVal(0)) }

\* a document carrying per-modality scores
ScoredDoc(id, ts, vs, meta) ==
    [document_id |-> id, text_score |-> S(ts), visual_score |-> S(vs), metadata |-> meta]

Documents ==
    { ScoredDoc("doc-123", 80, 0, EmptyMeta), ScoredDoc("doc-456", 0, 70, EmptyMeta),
      ScoredDoc("doc-789", 85, 65, EmptyMeta), TextRec("doc-456", 75, EmptyMeta),
      ScoredDoc("doc-123", 80, 0, Meta(Absent, IntVal(-3))),
      ScoredDoc("doc-456", 60, 0, Meta(Absent, StrVal)),
      ScoredDoc("doc-789", 0, 40, Meta(StrVal, Absent)),
      ScoredDoc("doc-123", 90, 0, Meta(DateVal(15), IntVal(1000))) }

EmptyContext == [k \in {} |-> TRUE]

QueryContexts ==
    { EmptyContext, [visual_emphasis |-> TRUE], [text_emphasis |-> TRUE],
      [visual_emphasis |-> TRUE, text_emphasis |-> TRUE],
      [visual_emphasis |-> FALSE, text_emphasis |-> FALSE],
      [text_weight |-> W(9), visual_weight |-> W(1)] }

\* a ranked document as diversify_results reads it
RankedDoc(id, rel, types) ==
    [document_id |-> id, relevance_score |-> rel, match_types |-> types]

RankedDocs ==
    { RankedDoc("doc-123", S(90), <<"text">>), RankedDoc("doc-456", S(50), <<"text">>),
      RankedDoc("doc-789", S(40), <<"visual">>),
      RankedDoc("doc-123", S(30), <<"text", "visual">>),
      RankedDoc("doc-456", NegInf, <<"visual">>),
      RankedDoc("doc-321", S(40), <<>>),
      [document_id |-> "doc-789", combined_score |-> S(95), match_types |-> <<>>] }

\* all lists over a set, up to MaxDocs long
DocListsOf(set) == UNION { [1..n -> set] : n \in 0..MaxDocs }

\* a call of f is pending
Pending(f) ==
    /\ fn = f
    /\ pc = "call"
    /\ ret = <<>>
    /\ exc = "none"
    /\ calls = <<>>
    /\ threads = <<>>

\* a store without documents
EmptyStore == [id \in {} |-> [exists |-> FALSE]]

\* the call reads no index and no store
NoSearch ==
    /\ response = <<>> /\ store = EmptyStore /\ top_k = 0
    /\ backend = "ok" /\ given = {}

InitRankResults ==
    /\ Pending("rank_results")
    /\ text_results \in ListsOf(TextRecords)
    /\ visual_results \in ListsOf(VisualRecords)
    /\ \E w \in WeightPairs : text_weight = W(w[1]) /\ visual_weight = W(w[2])
    /\ limit = 0 /\ text_score = Zero /\ visual_score = Zero /\ metadata = EmptyMeta
    /\ documents = <<>> /\ query_context = EmptyContext /\ ranked_docs = <<>>
    /\ NoSearch

\* the text index returns at most num_neighbors = limit matches
InitHybridSearch ==
    /\ Pending("hybrid_search")
    /\ limit \in 1..(MaxLen + 1)
    /\ text_results \in ListsOf(HybridTextMatches)
    /\ Len(text_results) <= limit
    /\ visual_results \in ListsOf(HybridVisualMatches)
    /\ \E w \in WeightPairs : text_weight = W(w[1]) /\ visual_weight = W(w[2])
    /\ text_score = Zero /\ visual_score = Zero /\ metadata = EmptyMeta
    /\ documents = <<>> /\ query_context = EmptyContext /\ ranked_docs = <<>>
    /\ NoSearch

InitCalculateRelevanceScore ==
    /\ Pending("calculate_relevance_score")
    /\ text_score \in {S(0), S(80), S(100)}
    /\ visual_score \in {S(0), S(70), S(100)}
    /\ \E w \in WeightPairs : text_weight = W(w[1]) /\ visual_weight = W(w[2])
    /\ metadata \in Metadatas
    /\ text_results = <<>> /\ visual_results = <<>> /\ limit = 0
    /\ documents = <<>> /\ query_context = EmptyContext /\ ranked_docs = <<>>
    /\ NoSearch

InitRankDocumentList ==
    /\ Pending("rank_document_list")
    /\ documents \in DocListsOf(Documents)
    /\ query_context \in QueryContexts
    /\ text_results = <<>> /\ visual_results = <<>> /\ limit = 0
    /\ text_weight = W(6) /\ visual_weight = W(4)
    /\ text_score = Zero /\ visual_score = Zero /\ metadata = EmptyMeta
    /\ ranked_docs = <<>>
    /\ NoSearch

InitDiversifyResults ==
    /\ Pending("diversify_results")
    /\ ranked_docs \in DocListsOf(RankedDocs)
    /\ text_results = <<>> /\ visual_results = <<>> /\ limit = 0
    /\ text_weight = W(6) /\ visual_weight = W(4)
    /\ text_score = Zero /\ visual_score = Zero /\ metadata = EmptyMeta
    /\ documents = <<>> /\ query_context = EmptyContext
    /\ NoSearch

\* a match of the index: match.id and match.distance
Match(id, distance) == [id |-> id, distance |-> S(distance)]

\* the matches of tests/test_similarity.py:92-95, a match for a document that
\* is not stored and a second match for doc-456
Matches ==
    { Match("doc-123", 85), Match("doc-456", 75), Match("doc-404", 90),
      Match("doc-456", 95) }

\* the answers of the index: no entry at all, or the matches of the one query
Responses == {<<>>} \cup { <<matches>> : matches \in ListsOf(Matches) }

\* a stored document: doc.exists and the fields of doc.to_dict() that are
\* read; text_embedding tells whether the stored vector is non-empty,
\* visual_embeddings how many diagrams have one (at most one in this model,
\* so the visual index is queried at most once)
StoredDoc(filename, meta, text_embedding, visual_embeddings) ==
    [exists |-> TRUE, filename |-> filename, metadata |-> meta,
     text_embedding |-> text_embedding, visual_embeddings |-> visual_embeddings]

\* the store of tests/test_similarity.py:104-123
TestStore ==
    [id \in {"doc-123", "doc-456"} |->
        IF id = "doc-123" THEN StoredDoc("test_doc1.pdf", EmptyMeta, TRUE, 1)
        ELSE StoredDoc("test_doc2.pdf", EmptyMeta, TRUE, 0)]

Stores ==
    { EmptyStore, TestStore,
      [id \in {"doc-123"} |-> StoredDoc("doc-123.pdf", Meta(Absent, IntVal(1000)), FALSE, 1)],
      [id \in {"doc-123", "doc-456"} |->
          IF id = "doc-123" THEN StoredDoc("doc-123.pdf", Meta(DateVal(15), Absent), FALSE, 0)
          ELSE [exists |-> TRUE, metadata |-> Meta(Absent, StrVal),
                text_embedding |-> TRUE, visual_embeddings |-> 0]] }

\* no ranking argument is passed
NoRanking ==
    /\ text_results = <<>> /\ visual_results = <<>> /\ limit = 0
    /\ text_weight = W(6) /\ visual_weight = W(4)
    /\ text_score = Zero /\ visual_score = Zero /\ metadata = EmptyMeta
    /\ documents = <<>> /\ query_context = EmptyContext /\ ranked_docs = <<>>

\* the index returns at most num_neighbors = top_k matches
InitSearchTextSimilarity ==
    /\ Pending("search_text_similarity")
    /\ top_k \in 0..(MaxLen + 1)
    /\ response \in Responses
    /\ response # <<>> => Len(response[1]) <= top_k
    /\ store \in Stores
    /\ backend \in {"ok", "endpoint", "match", "store"}
    /\ given = {}
    /\ NoRanking

\* the index returns at most num_neighbors = (limit or 10) matches
InitSearchByText ==
    /\ Pending("search_by_text")
    /\ limit \in 0..(MaxLen + 1)
    /\ response \in Responses
    /\ response # <<>> => Len(response[1]) <= LimitOrTen(limit)
    /\ store \in Stores
    /\ backend \in {"ok", "embedding", "store"}
    /\ top_k = 0 /\ given = {}
    /\ text_results = <<>> /\ visual_results = <<>>
    /\ text_weight = W(6) /\ visual_weight = W(4)
    /\ text_score = Zero /\ visual_score = Zero /\ metadata = EmptyMeta
    /\ documents = <<>> /\ query_context = EmptyContext /\ ranked_docs = <<>>

\* the visual records of tests/test_similarity.py:40-60
TestVisualResults ==
    { VisualRec("doc-789", 0, 90, EmptyMeta), VisualRec("doc-123", 1, 65, EmptyMeta) }

\* the matches of tests/test_similarity.py:92-95
TestMatches == { Match("doc-123", 85), Match("doc-456", 75) }

\* the arguments given: none, each alone, and document_id with the others
GivenArguments == SUBSET {"document_id", "text_query", "image_content"}

\* each index returns at most num_neighbors = top_k matches per query
InitFindSimilarDocuments ==
    /\ Pending("find_similar_documents")
    /\ given \in GivenArguments
    /\ top_k \in 0..MaxLen
    /\ response \in {<<>>} \cup { <<matches>> : matches \in ListsOf(TestMatches) }
    /\ response # <<>> => Len(response[1]) <= top_k
    /\ visual_results \in ListsOf(TestVisualResults)
    /\ store \in Stores
    /\ backend \in {"ok", "embedding", "store"}
    /\ text_results = <<>> /\ limit = 0
    /\ text_weight = W(6) /\ visual_weight = W(4)
    /\ text_score = Zero /\ visual_score = Zero /\ metadata = EmptyMeta
    /\ documents = <<>> /\ query_context = EmptyContext /\ ranked_docs = <<>>

Init ==
    \/ InitRankResults
    \/ InitHybridSearch
    \/ InitCalculateRelevanceScore
    \/ InitRankDocumentList
    \/ InitDiversifyResults
    \/ InitSearchTextSimilarity
    \/ InitSearchByText
    \/ InitFindSimilarDocuments

\* the pending call runs to its return or its raise
Finish(out) ==
    /\ pc' = IF out.exc = "none" THEN "return" ELSE "raise"
    /\ ret' = out.ret
    /\ exc' = out.exc
    /\ calls' = IF "calls" \in DOMAIN out THEN out.calls ELSE calls
    /\ UNCHANGED args

RankResults ==
    /\ fn = "rank_results"
    /\ pc = "call"
    /\ Finish(rank_results(text_results, visual_results, text_weight, visual_weight))
    \* similarity.py:274-324 only reads the two lists and writes to doc_scores
    /\ UNCHANGED <<text_results, visual_results, documents, ranked_docs>>

HybridSearch ==
    /\ fn = "hybrid_search"
    /\ pc = "call"
    /\ Finish(hybrid_search(text_results, visual_results, limit, text_weight, visual_weight))
    /\ UNCHANGED <<text_results, visual_results, documents, ranked_docs>>

CalculateRelevanceScore ==
    /\ fn = "calculate_relevance_score"
    /\ pc = "call"
    /\ Finish(calculate_relevance_score(text_score, visual_score, text_weight,
                                        visual_weight, metadata))
    /\ UNCHANGED <<text_results, visual_results, documents, ranked_docs>>

RankDocumentList ==
    /\ fn = "rank_document_list"
    /\ pc = "call"
    /\ Finish(rank_document_list(documents, query_context))
    /\ documents' = DocumentsAfterCall(documents, query_context)
    /\ UNCHANGED <<text_results, visual_results, ranked_docs>>

DiversifyResults ==
    /\ fn = "diversify_results"
    /\ pc = "call"
    /\ Finish(Return(diversify_results(ranked_docs)))
    \* ranking.py:134-135 and 174-176: the seed list is new, candidates is a
    \* slice, and only candidates is popped from
    /\ UNCHANGED <<text_results, visual_results, documents, ranked_docs>>

SearchTextSimilarity ==
    /\ fn = "search_text_similarity"
    /\ pc = "call"
    /\ Finish(search_text_similarity(response, store, top_k, backend))
    /\ UNCHANGED <<text_results, visual_results, documents, ranked_docs>>

SearchByText ==
    /\ fn = "search_by_text"
    /\ pc = "call"
    /\ Finish(search_by_text(response, store, limit, backend))
    /\ UNCHANGED <<text_results, visual_results, documents, ranked_docs>>

FindSimilarDocuments ==
    /\ fn = "find_similar_documents"
    /\ pc = "call"
    /\ Finish(find_similar_documents(given, store, response, visual_results, top_k, backend))
    /\ UNCHANGED <<text_results, visual_results, documents, ranked_docs>>

Next ==
    \/ RankResults
    \/ HybridSearch
    \/ CalculateRelevanceScore
    \/ RankDocumentList
    \/ DiversifyResults
    \/ SearchTextSimilarity
    \/ SearchByText
    \/ FindSimilarDocuments

Spec == Init /\ [][Next]_vars

\* ------------------------------------------- two invocations run concurrently
\* Two request-handling threads call ranking functions on the same list
\* object: rank_document_list as documents, diversify_results as
\* ranked_docs, rank_results as text_results (with the shared visual_results).
\* Each step below is one statement or one loop iteration of the source; the
\* shared list `documents` is read anew at every step.
Threads == {1, 2}

RankingFunctions == {"rank_document_list", "rank_results", "diversify_results"}

\* a record that went through a search and an earlier ranking: it has the
\* keys each of the three functions reads
SharedRecord(id, score, ts, vs, relevance, types, meta) ==
    TextRec(id, score, meta)
       @@ [text_score |-> S(ts), visual_score |-> S(vs),
           relevance_score |-> S(relevance), match_types |-> types]

SharedRecords ==
    { SharedRecord("doc-123", 85, 85, 0, 20, <<"text">>, EmptyMeta),
      SharedRecord("doc-456", 75, 40, 90, 50, <<"text", "visual">>, EmptyMeta),
      SharedRecord("doc-789", 60, 60, 0, 90, <<"text">>, Meta(Absent, StrVal)) }

\* the lists of distinct documents, up to MaxLen long
SharedLists ==
    { list \in ListsOf(SharedRecords) :
         \A i, j \in 1..Len(list) : i # j => list[i].document_id # list[j].document_id }

\* a thread about to call f
NewThread(f) ==
    [fn |-> f, pc |-> "call", i |-> 0, local |-> <<>>, ret |-> <<>>, exc |-> "none",
     overlapped |-> FALSE]

\* the other thread is in the middle of its call
OtherMidCall(t) == threads[3 - t].pc \notin {"call", "return", "raise"}

\* thread t takes a step that leaves it in state next
StepTo(t, next) ==
    threads' = [threads EXCEPT
                  ![t] = [next EXCEPT !.overlapped = @ \/ OtherMidCall(t)]]

InitConcurrent ==
    /\ documents \in SharedLists
    /\ visual_results \in {<<>>, <<VisualRec("doc-123", 1, 65, EmptyMeta)>>}
    /\ query_context \in {EmptyContext, [text_emphasis |-> TRUE]}
    /\ threads \in [Threads -> { NewThread(f) : f \in RankingFunctions }]
    /\ fn = "concurrent" /\ pc = "call" /\ ret = <<>> /\ exc = "none" /\ calls = <<>>
    /\ text_results = <<>> /\ ranked_docs = <<>> /\ limit = 0
    /\ text_weight = W(6) /\ visual_weight = W(4)
    /\ text_score = Zero /\ visual_score = Zero /\ metadata = EmptyMeta
    /\ NoSearch

\* what the concurrent steps never touch
ConcurrentFrame ==
    UNCHANGED <<fn, pc, ret, exc, calls, text_results, ranked_docs, limit, text_weight,
                visual_weight, text_score, visual_score, metadata, query_context,
                response, store, top_k, backend, given>>

\* the list rank_document_list works on: the caller's list itself when the
\* copy shares it
WorkingListOf(t) == IF threads[t].local.shared THEN documents ELSE threads[t].local.value

\* thread t stores the working list; the write reaches the caller's list
\* when the two are the same object
WriteWorkingList(t, list, next) ==
    IF threads[t].local.shared
    THEN documents' = list /\ StepTo(t, next)
    ELSE documents' = documents
         /\ StepTo(t, [next EXCEPT !.local = [shared |-> FALSE, value |-> list]])

\* ranking.py:77
CopyDocuments(t) ==
    /\ threads[t].fn = "rank_document_list" /\ threads[t].pc = "call"
    /\ StepTo(t, [threads[t] EXCEPT !.pc = "score", !.i = 1, !.local = deepcopy(documents)])
    /\ UNCHANGED <<documents, visual_results>>
    /\ ConcurrentFrame

\* ranking.py:80-105: one iteration of "for doc in ranked_docs"
ScoreDocument(t) ==
    /\ threads[t].fn = "rank_document_list" /\ threads[t].pc = "score"
    /\ threads[t].i <= Len(WorkingListOf(t))
    /\ LET list == WorkingListOf(t)
           i == threads[t].i
           score == DocRelevance(list[i], query_context)
       IN  IF score.exc # "none"
           THEN /\ StepTo(t, [threads[t] EXCEPT !.pc = "raise", !.exc = score.exc])
                /\ UNCHANGED documents
           ELSE WriteWorkingList(t,
                   [list EXCEPT ![i] = SetKey(list[i], "relevance_score", score.ret)],
                   [threads[t] EXCEPT !.i = i + 1])
    /\ UNCHANGED visual_results
    /\ ConcurrentFrame

\* ranking.py:108-110: the sort in place and the return
SortDocuments(t) ==
    /\ threads[t].fn = "rank_document_list" /\ threads[t].pc = "score"
    /\ threads[t].i > Len(WorkingListOf(t))
    /\ LET sorted == SortDesc(WorkingListOf(t), "relevance_score")
       IN  WriteWorkingList(t, sorted, [threads[t] EXCEPT !.pc = "return", !.ret = sorted])
    /\ UNCHANGED visual_results
    /\ ConcurrentFrame

\* similarity.py:274-290: one iteration of "for result in text_results", the
\* loop entered at the first step
MergeTextResult(t) ==
    /\ threads[t].fn = "rank_results" /\ threads[t].pc \in {"call", "text"}
    /\ LET i == IF threads[t].pc = "call" THEN 1 ELSE threads[t].i
           combined_results == IF threads[t].pc = "call" THEN <<>> ELSE threads[t].local
       IN  IF i > Len(documents)
           THEN StepTo(t, [threads[t] EXCEPT !.pc = "visual", !.i = 1,
                                             !.local = combined_results])
           ELSE StepTo(t, [threads[t] EXCEPT
                             !.pc = "text", !.i = i + 1,
                             !.local = ProcessTextResult(combined_results, documents[i])])
    /\ UNCHANGED <<documents, visual_results>>
    /\ ConcurrentFrame

\* similarity.py:293-324: one iteration of "for result in visual_results"
MergeVisualResult(t) ==
    /\ threads[t].fn = "rank_results" /\ threads[t].pc = "visual"
    /\ threads[t].i <= Len(visual_results)
    /\ StepTo(t, [threads[t] EXCEPT
                    !.i = @ + 1,
                    !.local = ProcessVisualResult(@, visual_results[threads[t].i])])
    /\ UNCHANGED <<documents, visual_results>>
    /\ ConcurrentFrame

\* similarity.py:326-346: scores, sort and return, with the weights 0.6 / 0.4
CombineResults(t) ==
    /\ threads[t].fn = "rank_results" /\ threads[t].pc = "visual"
    /\ threads[t].i > Len(visual_results)
    /\ LET w == NormalizedWeights(W(6), W(4))
       IN  StepTo(t, [threads[t] EXCEPT
                        !.pc = "return",
                        !.ret = ScoredResults(threads[t].local, w[1], w[2])])
    /\ UNCHANGED <<documents, visual_results>>
    /\ ConcurrentFrame

\* the caller's record a reference points to; the documents of a shared list
\* are distinct, so the document_id stands for the reference
Deref(id) == documents[CHOOSE k \in 1..Len(documents) : documents[k].document_id = id]

DerefAll(ids) == [k \in 1..Len(ids) |-> Deref(ids[k])]

\* ranking.py:127-135: the empty case, else the seed and the candidates;
\* both new lists hold references to the caller's records
SeedDiversified(t) ==
    /\ threads[t].fn = "diversify_results" /\ threads[t].pc = "call"
    /\ IF documents = <<>>
       THEN StepTo(t, [threads[t] EXCEPT !.pc = "return", !.ret = <<>>])
       ELSE StepTo(t, [threads[t] EXCEPT
                         !.pc = "select",
                         !.i = Len(documents),
                         !.local = [diversified_results |-> <<documents[1].document_id>>,
                                    candidates |-> [k \in 1..(Len(documents) - 1) |->
                                                       documents[k + 1].document_id]]])
    /\ UNCHANGED <<documents, visual_results>>
    /\ ConcurrentFrame

\* ranking.py:137-180: one pass of the while loop, or the return; i holds
\* len(ranked_docs)
SelectCandidate(t) ==
    /\ threads[t].fn = "diversify_results" /\ threads[t].pc = "select"
    /\ LET diversified_results == threads[t].local.diversified_results
           candidates == threads[t].local.candidates
           best_candidate_idx ==
               BestCandidateIdx(DerefAll(candidates), DerefAll(diversified_results),
                                RelevanceKey)
       IN  IF candidates # <<>> /\ Len(diversified_results) < threads[t].i
              /\ best_candidate_idx >= 1
           THEN StepTo(t, [threads[t] EXCEPT
                             !.local = [diversified_results |->
                                           Append(diversified_results,
                                                  candidates[best_candidate_idx]),
                                        candidates |-> Pop(candidates, best_candidate_idx)]])
           ELSE StepTo(t, [threads[t] EXCEPT
                             !.pc = "return", !.ret = DerefAll(diversified_results)])
    /\ UNCHANGED <<documents, visual_results>>
    /\ ConcurrentFrame

NextConcurrent ==
    \E t \in Threads :
       \/ CopyDocuments(t)
       \/ ScoreDocument(t)
       \/ SortDocuments(t)
       \/ MergeTextResult(t)
       \/ MergeVisualResult(t)
       \/ CombineResults(t)
       \/ SeedDiversified(t)
       \/ SelectCandidate(t)

ConcurrentSpec == InitConcurrent /\ [][NextConcurrent]_vars

\* ------------------------------------------------------------------ claims
Returned(f) == fn = f /\ pc = "return"

Raised(f) == fn = f /\ pc = "raise"

\* the list has an entry for the document
InList(list, id) == \E i \in 1..Len(list) : list[i].document_id = id

Count(seq, x) == Cardinality({ i \in 1..Len(seq) : seq[i] = x })

\* b holds the records of a, each as often as a does
IsPermutation(a, b) ==
    /\ Len(a) = Len(b)
    /\ \A i \in 1..Len(a) : Count(a, a[i]) = Count(b, a[i])

\* every record's relevance score is a finite number or absent
FiniteScores(docs) == \A i \in 1..Len(docs) : IsFinite(RelevanceScore(docs[i], RelevanceKey))

\* C1 (as claimed): diversify_results returns a permutation of its input for
\* every input list, whatever the scores.
C1_PermutationAnyScores ==
    Returned("diversify_results") => IsPermutation(ranked_docs, ret)

\* C1 (amended): diversify_results returns a permutation of its input - same
\* length, no record dropped, none duplicated - for every input list whose
\* relevance scores are finite numbers or absent.
C1_PermutationFiniteScores ==
    (Returned("diversify_results") /\ FiniteScores(ranked_docs))
        => IsPermutation(ranked_docs, ret)

\* a three-record list with a repeated document_id was reordered
C1_Witness ==
    /\ Returned("diversify_results")
    /\ FiniteScores(ranked_docs)
    /\ Len(ranked_docs) = 3
    /\ ranked_docs[1].document_id = ranked_docs[3].document_id
    /\ ret # ranked_docs
    /\ Len(ret) = 3

\* C2: with weights 0.6 / 0.4, a document matched in both lists - in
\* test_rank_results the one with text 0.85 and visual 0.65 - is the first
\* element of rank_results' ranking, ahead of the documents matched in one
\* modality only.
C2_BothModalitiesRankFirst ==
    (/\ Returned("rank_results")
     /\ text_weight = W(6) /\ visual_weight = W(4)
     /\ \E i \in 1..Len(ret) :
           /\ InList(text_results, ret[i].document_id)
           /\ InList(visual_results, ret[i].document_id)
           /\ ret[i].text_score = S(85) /\ ret[i].visual_score = S(65))
        => (InList(text_results, ret[1].document_id)
            /\ InList(visual_results, ret[1].document_id))

\* C3: in rank_results a document found only in the text list has
\* combined_score = text_score and one found only in the visual list has
\* combined_score = visual_score, for every weight pair of nonzero sum.
C3_SingleModalityScore ==
    Returned("rank_results") =>
        \A i \in 1..Len(ret) :
            LET id == ret[i].document_id
            IN  /\ (InList(text_results, id) /\ ~InList(visual_results, id))
                       => ret[i].combined_score = ret[i].text_score
                /\ (InList(visual_results, id) /\ ~InList(text_results, id))
                       => ret[i].combined_score = ret[i].visual_score

\* under weights other than the defaults both single-modality cases occurred
C3_Witness ==
    /\ Returned("rank_results")
    /\ text_weight = W(1) /\ visual_weight = W(3)
    /\ \E i, j \in 1..Len(ret) :
          /\ ~InList(visual_results, ret[i].document_id)
          /\ ret[i].combined_score = S(75)
          /\ ~InList(text_results, ret[j].document_id)
          /\ ret[j].combined_score = S(90)

\* (wt*ts + wv*vs) / (wt + wv) as a fraction in lowest terms
WeightedAverage(wt, wv, ts, vs) ==
    LET a == wt.n * wv.d
        c == wv.n * wt.d
    IN  Rat(a * ts.n * vs.d + c * vs.n * ts.d, ts.d * vs.d * (a + c))

\* C4: in rank_results a document found in both lists has combined_score =
\* (wt/(wt+wv))*text_score + (wv/(wt+wv))*visual_score; for 0.85, 0.65 and
\* weights 0.6 / 0.4 that is 0.77.
C4_BothModalitiesScore ==
    Returned("rank_results") =>
        \A i \in 1..Len(ret) :
            (InList(text_results, ret[i].document_id)
             /\ InList(visual_results, ret[i].document_id))
                => /\ ret[i].combined_score =
                        WeightedAverage(text_weight, visual_weight,
                                        ret[i].text_score, ret[i].visual_score)
                   /\ (/\ text_weight = W(6) /\ visual_weight = W(4)
                       /\ ret[i].text_score = S(85) /\ ret[i].visual_score = S(65))
                          => ret[i].combined_score = S(77)

\* the 0.85 / 0.65 document was scored under 0.6 / 0.4
C4_Witness ==
    /\ Returned("rank_results")
    /\ text_weight = W(6) /\ visual_weight = W(4)
    /\ \E i \in 1..Len(ret) :
          /\ InList(text_results, ret[i].document_id)
          /\ InList(visual_results, ret[i].document_id)
          /\ ret[i].text_score = S(85) /\ ret[i].visual_score = S(65)
          /\ ret[i].combined_score = S(77)

\* C5: in the hybrid search pipeline the relevance term of a candidate's MMR
\* score is its combined_score: the route returns the MMR order computed with
\* combined_score as the relevance component.
C5_HybridRelevanceIsCombinedScore ==
    Returned("hybrid_search") =>
        ret = Take(Mmr(rank_results(text_results, TopVisual(visual_results, limit),
                                    text_weight, visual_weight).ret,
                       "combined_score"),
                   limit)

\* no recency or popularity adjustment applies to the metadata
NoAdjustment(meta) ==
    /\ ~ViewCountRaises(meta)
    /\ RecencyAdjusted(One, meta) = One
    /\ PopularityAdjusted(One, meta) = One

\* C6: in rank_document_list a document with only a text match (visual_score
\* 0.0) and no applicable metadata adjustment gets relevance_score =
\* text_score whatever the weights, and a visual-only document its
\* visual_score.
C6_SingleModalityNotPenalized ==
    Returned("rank_document_list") =>
        \A i \in 1..Len(ret) :
            LET ts == Get(ret[i], "text_score", Zero)
                vs == Get(ret[i], "visual_score", Zero)
            IN  NoAdjustment(Get(ret[i], "metadata", EmptyMeta)) =>
                    /\ (ts # Zero /\ vs = Zero) => ret[i].relevance_score = ts
                    /\ (vs # Zero /\ ts = Zero) => ret[i].relevance_score = vs

IdsOf(list) == { list[i].document_id : i \in 1..Len(list) }

\* C7: rank_results returns exactly one record per distinct document_id of
\* text_results and visual_results and none for any other id; text [A] with
\* visual [A, B] gives A with match_types text, visual and B with match_types
\* visual and text_score 0.0.
C7_OneRecordPerDocument ==
    Returned("rank_results") =>
        /\ IdsOf(ret) = IdsOf(text_results) \cup IdsOf(visual_results)
        /\ Len(ret) = Cardinality(IdsOf(text_results) \cup IdsOf(visual_results))
        /\ (/\ Len(text_results) = 1 /\ Len(visual_results) = 2
            /\ text_results[1].document_id = visual_results[1].document_id
            /\ text_results[1].document_id # visual_results[2].document_id)
               => \E i, j \in 1..2 :
                     /\ Len(ret) = 2
                     /\ ret[i].document_id = text_results[1].document_id
                     /\ ret[i].match_types = <<"text", "visual">>
                     /\ ret[j].document_id = visual_results[2].document_id
                     /\ ret[j].match_types = <<"visual">>
                     /\ ret[j].text_score = Zero

\* text [A], visual [A, B] was merged into two records
C7_Witness ==
    /\ Returned("rank_results")
    /\ Len(text_results) = 1 /\ Len(visual_results) = 2
    /\ text_results[1].document_id = visual_results[1].document_id
    /\ text_results[1].document_id # visual_results[2].document_id
    /\ Len(ret) = 2

\* a >= b on floats
FGe(a, b) == FGt(a, b) \/ (~IsNaN(a) /\ ~IsNaN(b) /\ a = b)

\* the similarity scores of the document's visual matches
VisualScoresOf(id) ==
    { visual_results[j].similarity_score :
        j \in { k \in 1..Len(visual_results) : visual_results[k].document_id = id } }

\* C8: after rank_results a document's visual_score is the maximum
\* similarity_score over its visual matches, whatever the score values, and
\* 0.0 when it has no visual match.
C8_VisualScoreIsMaximum ==
    Returned("rank_results") =>
        \A i \in 1..Len(ret) :
            LET scores == VisualScoresOf(ret[i].document_id)
            IN  IF scores = {} THEN ret[i].visual_score = Zero
                ELSE /\ ret[i].visual_score \in scores
                     /\ \A x \in scores : FGe(ret[i].visual_score, x)

\* a scorer call with a weight pair of sum zero has ended
ZeroWeightCallEnded ==
    /\ fn \in {"rank_results", "calculate_relevance_score"}
    /\ pc # "call"
    /\ FAdd(text_weight, visual_weight) = Zero

\* C9 (as claimed): a weight pair of sum zero makes calculate_relevance_score
\* and rank_results fail with an InvalidWeight error.
C9_ZeroSumRaisesInvalidWeight ==
    ZeroWeightCallEnded => (pc = "raise" /\ exc = "InvalidWeight")

\* C9 (amended): a weight pair of sum zero makes calculate_relevance_score
\* and rank_results fail fast with Python's ZeroDivisionError, raised by the
\* weight normalization; the call returns no score.
C9_ZeroSumRaisesZeroDivision ==
    ZeroWeightCallEnded => (pc = "raise" /\ exc = "ZeroDivisionError" /\ ret = <<>>)

\* rank_results was called on matches with weights 0.5 / -0.5
C9_Witness ==
    /\ Raised("rank_results")
    /\ text_weight = W(5) /\ visual_weight = W(-5)
    /\ text_results # <<>> /\ visual_results # <<>>

\* C10: a malformed value of a recognized metadata key never aborts
\* rank_document_list: the call returns and every document has a
\* relevance_score.
C10_MalformedMetadataTolerated ==
    (fn = "rank_document_list" /\ pc # "call") =>
        /\ pc = "return"
        /\ Len(ret) = Len(documents)
        /\ \A i \in 1..Len(ret) : "relevance_score" \in DOMAIN ret[i]

\* the weighted score of the pending calculate_relevance_score call
CallWeightedScore == WeightedAverage(text_weight, visual_weight, text_score, visual_score)

\* C11: the recency adjustment is a boost: a document created today has its
\* weighted score raised by 10%, and for no created_date is the score lower
\* than the unadjusted weighted score.
C11_RecencyIsBoost ==
    (/\ Returned("calculate_relevance_score")
     /\ metadata.created_date.kind = "datetime"
     /\ metadata.view_count.kind = "absent")
        => /\ metadata.created_date.v = 0 => ret = FMul(CallWeightedScore, Rat(11, 10))
           /\ ~FGt(CallWeightedScore, ret)

\* min(1 + log10(view_count) * 0.05, 1.1) for a power of ten
CappedPopularity(view_count) ==
    IF Log10(view_count) >= 2 THEN Rat(11, 10)
    ELSE Rat(100 + 5 * Log10(view_count), 100)

\* C12: for view_count > 0 the popularity multiplier is
\* min(1 + log10(view_count) * 0.05, 1.1), never above 1.1; view_count = 1000
\* without created_date multiplies the weighted score by exactly 1.1.
C12_PopularityCapped ==
    (/\ Returned("calculate_relevance_score")
     /\ metadata.created_date.kind = "absent"
     /\ metadata.view_count.kind = "int" /\ metadata.view_count.v > 0)
        => /\ ret = FMul(CallWeightedScore, CappedPopularity(metadata.view_count.v))
           /\ ~FGt(CappedPopularity(metadata.view_count.v), Rat(11, 10))
           /\ metadata.view_count.v = 1000 => ret = FMul(CallWeightedScore, Rat(11, 10))

\* a score of 0.8 * 0.6 with view_count = 1000 came out as 0.528
C12_Witness ==
    /\ Returned("calculate_relevance_score")
    /\ metadata = Meta(Absent, IntVal(1000))
    /\ text_score = S(80) /\ visual_score = Zero
    /\ text_weight = W(6) /\ visual_weight = W(4)
    /\ ret = Rat(528, 1000)

\* C13: when the query context carries explicit text_weight / visual_weight,
\* rank_document_list scores with them instead of the defaults: a document
\* without metadata adjustment gets their weighted average.
C13_ContextWeightsUsed ==
    (/\ Returned("rank_document_list")
     /\ {"text_weight", "visual_weight"} \subseteq DOMAIN query_context)
        => \A i \in 1..Len(ret) :
              NoAdjustment(Get(ret[i], "metadata", EmptyMeta))
                 => ret[i].relevance_score =
                       WeightedAverage(query_context.text_weight,
                                       query_context.visual_weight,
                                       Get(ret[i], "text_score", Zero),
                                       Get(ret[i], "visual_score", Zero))

\* the flag of a query context, false when absent
Flag(name) == name \in DOMAIN query_context /\ query_context[name]

\* the weights the rule of C14 gives the pending call
EmphasisWeights ==
    IF Flag("text_emphasis") THEN <<W(7), W(3)>>
    ELSE IF Flag("visual_emphasis") THEN <<W(4), W(6)>>
    ELSE <<W(6), W(4)>>

\* C14: rank_document_list scores every document with weights (0.6, 0.4)
\* without a flag, (0.4, 0.6) with only visual_emphasis, (0.7, 0.3) with
\* text_emphasis, and (0.7, 0.3) when both flags are set.
C14_EmphasisWeights ==
    Returned("rank_document_list")
        => \A i \in 1..Len(ret) :
              ret[i].relevance_score =
                 calculate_relevance_score(Get(ret[i], "text_score", Zero),
                                           Get(ret[i], "visual_score", Zero),
                                           EmphasisWeights[1], EmphasisWeights[2],
                                           Get(ret[i], "metadata", EmptyMeta)).ret

\* both flags set: 0.85 / 0.65 scored 0.7 * 0.85 + 0.3 * 0.65 = 0.79
C14_Witness ==
    /\ Returned("rank_document_list")
    /\ Flag("text_emphasis") /\ Flag("visual_emphasis")
    /\ \E i \in 1..Len(ret) :
          /\ ret[i].text_score = S(85) /\ ret[i].visual_score = S(65)
          /\ ret[i].relevance_score = S(79)

\* the pending call ends in this step
CallEnds == pc = "call" /\ pc' # "call"

\* C15: rank_document_list, rank_results and diversify_results never mutate
\* the caller's input: after the call, returning or raising, every list
\* passed in has the same length, order, keys and values as before.
C15_InputsNotMutated ==
    [][CallEnds => /\ documents' = documents
                   /\ text_results' = text_results
                   /\ visual_results' = visual_results
                   /\ ranked_docs' = ranked_docs]_vars

\* rank_document_list returned a reordered, scored list and the caller's
\* first document is still first and still has no relevance_score
C15_Witness ==
    /\ Returned("rank_document_list")
    /\ Len(documents) >= 2
    /\ ret[1].document_id # documents[1].document_id
    /\ "relevance_score" \in DOMAIN ret[1]
    /\ \A i \in 1..Len(documents) : "relevance_score" \notin DOMAIN documents[i]

\* the distinct elements of a list in first-seen order
RECURSIVE FirstSeen(_)
FirstSeen(seq) ==
    IF seq = <<>> THEN <<>>
    ELSE LET before == FirstSeen(SubSeq(seq, 1, Len(seq) - 1))
         IN  IF \E i \in 1..Len(before) : before[i] = seq[Len(seq)] THEN before
             ELSE Append(before, seq[Len(seq)])

\* the merge order of rank_results: the documents of the text list in list
\* order, then the visual-only documents in visual-list order
MergeOrder ==
    FirstSeen([i \in 1..Len(text_results) |-> text_results[i].document_id]
              \o [i \in 1..Len(visual_results) |-> visual_results[i].document_id])

PositionIn(seq, x) == CHOOSE i \in 1..Len(seq) : seq[i] = x

\* the permutations of 1..n
PermutationsOf(n) == { p \in [1..n -> 1..n] : \A a, b \in 1..n : a # b => p[a] # p[b] }

\* a returned document without the score attached to it
WithoutKey(doc, key) == [k \in DOMAIN doc \ {key} |-> doc[k]]

\* C16: the lists returned by rank_results and rank_document_list are sorted
\* descending by the computed score, and records of equal score keep their
\* relative input order (for rank_results the merge order).
C16_SortedDescendingStable ==
    /\ Returned("rank_results")
          => \A i, j \in 1..Len(ret) :
                i < j => \/ FGt(ret[i].combined_score, ret[j].combined_score)
                         \/ /\ ret[i].combined_score = ret[j].combined_score
                            /\ PositionIn(MergeOrder, ret[i].document_id)
                                  < PositionIn(MergeOrder, ret[j].document_id)
    /\ Returned("rank_document_list")
          => /\ Len(ret) = Len(documents)
             /\ \E p \in PermutationsOf(Len(documents)) :
                   /\ \A i \in 1..Len(ret) :
                         WithoutKey(ret[i], "relevance_score") = documents[p[i]]
                   /\ \A i, j \in 1..Len(ret) :
                         i < j => \/ FGt(ret[i].relevance_score, ret[j].relevance_score)
                                  \/ /\ ret[i].relevance_score = ret[j].relevance_score
                                     /\ p[i] < p[j]

\* a text-only and a visual-only document tie at 0.95 and come out in merge
\* order, the text document first
C16_Witness ==
    /\ Returned("rank_results")
    /\ Len(ret) = 2
    /\ ret[1].combined_score = S(95) /\ ret[2].combined_score = S(95)
    /\ ret[1].match_types = <<"text">> /\ ret[2].match_types = <<"visual">>

\* the modalities a document was found in, text before visual
ModalitiesOf(id) ==
    (IF InList(text_results, id) THEN <<"text">> ELSE <<>>)
       \o (IF InList(visual_results, id) THEN <<"visual">> ELSE <<>>)

\* C17: in every record returned by rank_results, match_types has 'text'
\* exactly when the document has an entry in text_results and 'visual'
\* exactly when it has one in visual_results, each at most once, text first.
C17_MatchTypesAreModalities ==
    Returned("rank_results")
        => \A i \in 1..Len(ret) : ret[i].match_types = ModalitiesOf(ret[i].document_id)

\* a document with two text entries and two visual entries carries each
\* modality once
C17_Witness ==
    /\ Returned("rank_results")
    /\ \E i \in 1..Len(ret) :
          /\ Cardinality({ k \in 1..Len(text_results) :
                             text_results[k].document_id = ret[i].document_id }) = 2
          /\ Cardinality({ k \in 1..Len(visual_results) :
                             visual_results[k].document_id = ret[i].document_id }) = 2
          /\ ret[i].match_types = <<"text", "visual">>

\* C18: for every non-empty input the first element of diversify_results'
\* output is the first element of the input, whatever the scores, and a
\* single-element input is returned unchanged.
C18_FirstElementKept ==
    (Returned("diversify_results") /\ ranked_docs # <<>>)
        => /\ ret # <<>>
           /\ ret[1] = ranked_docs[1]
           /\ Len(ranked_docs) = 1 => ret = ranked_docs

\* the first input record stayed first although the second scores higher
C18_Witness ==
    /\ Returned("diversify_results")
    /\ Len(ranked_docs) >= 2
    /\ FGt(RelevanceScore(ranked_docs[2], RelevanceKey),
           RelevanceScore(ranked_docs[1], RelevanceKey))
    /\ ret[1] = ranked_docs[1]
    /\ ret[2] = ranked_docs[2]

\* every two records of the list have similarity 0
AllDissimilar(list) ==
    \A i, j \in 1..Len(list) : i # j => Similarity(list[i], list[j]) = Zero

\* C19: when every pairwise similarity of the input is 0, applying
\* diversify_results to its own output returns the same order.
C19_IdempotentWhenDissimilar ==
    (Returned("diversify_results") /\ AllDissimilar(ranked_docs))
        => diversify_results(ret) = ret

\* three pairwise dissimilar records, two of them tied, were reordered and
\* a second pass keeps the new order
C19_Witness ==
    /\ Returned("diversify_results")
    /\ AllDissimilar(ranked_docs)
    /\ Len(ranked_docs) = 3 /\ Len(ret) = 3
    /\ ret # ranked_docs
    /\ \E i, j \in 1..3 :
          /\ i # j
          /\ RelevanceScore(ranked_docs[i], RelevanceKey)
                = RelevanceScore(ranked_docs[j], RelevanceKey)
    /\ diversify_results(ret) = ret

\* the call of f has ended, by return or by raise
Ended(f) == fn = f /\ pc # "call"

\* the returned list has exactly the documents of list, each labelled with
\* the one modality
OnlyModality(list, modality) ==
    /\ IdsOf(ret) = IdsOf(list)
    /\ Len(ret) = Cardinality(IdsOf(list))
    /\ \A i \in 1..Len(ret) : ret[i].match_types = <<modality>>

\* C20: empty inputs are not errors. With weights of nonzero sum
\* rank_results([], []) returns [], and with exactly one list empty it
\* returns only single-modality records for the documents of the other list;
\* rank_document_list([]) and diversify_results([]) return []; none raises.
C20_EmptyInputsReturn ==
    /\ (Ended("rank_results") /\ FAdd(text_weight, visual_weight) # Zero)
          => /\ (text_results = <<>> \/ visual_results = <<>>) => pc = "return"
             /\ (text_results = <<>> /\ visual_results = <<>>) => ret = <<>>
             /\ (text_results = <<>> /\ visual_results # <<>>)
                   => OnlyModality(visual_results, "visual")
             /\ (text_results # <<>> /\ visual_results = <<>>)
                   => OnlyModality(text_results, "text")
    /\ (Ended("rank_document_list") /\ documents = <<>>)
          => pc = "return" /\ ret = <<>>
    /\ (Ended("diversify_results") /\ ranked_docs = <<>>)
          => pc = "return" /\ ret = <<>>

\* no text result and two visual results for different documents: two
\* visual-only records
C20_Witness ==
    /\ Returned("rank_results")
    /\ text_results = <<>>
    /\ Len(visual_results) = 2
    /\ Len(ret) = 2
    /\ OnlyModality(visual_results, "visual")

\* both weights of the pending call are positive
PositiveWeights == FGt(text_weight, Zero) /\ FGt(visual_weight, Zero)

\* C22: for weights wt > 0 and wv > 0 the normalized weights sum to 1, in
\* calculate_relevance_score (two scores of 1.0 without adjustment give 1.0)
\* and in rank_results (the combined score of a document in both lists lies
\* on the line between its two scores).
C22_NormalizedWeightsSumToOne ==
    /\ (Returned("calculate_relevance_score") /\ PositiveWeights)
          => /\ FAdd(NormalizedWeights(text_weight, visual_weight)[1],
                     NormalizedWeights(text_weight, visual_weight)[2]) = One
             /\ (text_score = One /\ visual_score = One /\ NoAdjustment(metadata))
                   => ret = One
    /\ (Returned("rank_results") /\ PositiveWeights)
          => /\ FAdd(NormalizedWeights(text_weight, visual_weight)[1],
                     NormalizedWeights(text_weight, visual_weight)[2]) = One
             /\ \A i \in 1..Len(ret) :
                   ret[i].match_types = <<"text", "visual">>
                      => ret[i].combined_score =
                            FAdd(ret[i].visual_score,
                                 FMul(NormalizedWeights(text_weight, visual_weight)[1],
                                      FSub(ret[i].text_score, ret[i].visual_score)))

\* weights 0.1 and 0.3, which do not sum to 1 as given: two scores of 1.0
\* came out as 1.0
C22_Witness ==
    /\ Returned("calculate_relevance_score")
    /\ text_weight = W(1) /\ visual_weight = W(3)
    /\ text_score = One /\ visual_score = One
    /\ metadata = EmptyMeta
    /\ ret = One

\* the list without the first occurrence of x
RECURSIVE WithoutFirst(_, _)
WithoutFirst(seq, x) ==
    IF seq = <<>> THEN <<>>
    ELSE IF Head(seq) = x THEN Tail(seq)
    ELSE <<Head(seq)>> \o WithoutFirst(Tail(seq), x)

\* the candidates left when the k-th record of the output is chosen
RECURSIVE RemainingAt(_)
RemainingAt(k) ==
    IF k <= 2 THEN Tail(ranked_docs)
    ELSE WithoutFirst(RemainingAt(k - 1), ret[k - 1])

\* |a.match_types & b.match_types| / max(|a.match_types|, |b.match_types|, 1),
\* and 1 for the same document
PairSimilarity(a, b) ==
    LET ta == TypeSet(a)
        tb == TypeSet(b)
        m  == CHOOSE n \in {Cardinality(ta), Cardinality(tb), 1} :
                 \A o \in {Cardinality(ta), Cardinality(tb), 1} : n >= o
    IN  IF a.document_id = b.document_id THEN One
        ELSE Rat(Cardinality(ta \cap tb), m)

\* 0.7 * relevance_score - 0.3 * max_similarity against the first k - 1
\* records of the output
MmrAt(c, k) ==
    LET sims == { PairSimilarity(c, ret[j]) : j \in 1..(k - 1) }
        max_similarity == CHOOSE x \in sims : \A y \in sims : ~FGt(y, x)
    IN  FSub(FMul(Rat(7, 10), Get(c, "relevance_score", Zero)),
             FMul(Rat(3, 10), max_similarity))

\* C24: every record diversify_results appends is a remaining candidate of
\* maximal mmr_score = 0.7 * relevance_score - 0.3 * max_similarity, and
\* among candidates of equal mmr_score the earliest remaining one.
C24_MmrSelection ==
    Returned("diversify_results")
        => \A k \in 2..Len(ret) :
              \E i \in 1..Len(RemainingAt(k)) :
                 /\ RemainingAt(k)[i] = ret[k]
                 /\ \A j \in 1..Len(RemainingAt(k)) :
                       ~FGt(MmrAt(RemainingAt(k)[j], k), MmrAt(ret[k], k))
                 /\ \A j \in 1..(i - 1) :
                       FGt(MmrAt(ret[k], k), MmrAt(RemainingAt(k)[j], k))

\* a visual match of relevance 0.4 was taken before a text match of
\* relevance 0.5 because the first record is a text match too
C24_Witness ==
    /\ Returned("diversify_results")
    /\ Len(ranked_docs) = 3 /\ Len(ret) = 3
    /\ ranked_docs[1] = RankedDoc("doc-123", S(90), <<"text">>)
    /\ ranked_docs[2] = RankedDoc("doc-456", S(50), <<"text">>)
    /\ ranked_docs[3] = RankedDoc("doc-789", S(40), <<"visual">>)
    /\ ret[2] = ranked_docs[3] /\ ret[3] = ranked_docs[2]

\* every pass of the loop that started with candidates left selected one:
\* the passes that appended ret[2..], and the pass after the last append
EveryPassSelects ==
    \A k \in 2..(Len(ret) + 1) :
       RemainingAt(k) # <<>>
          => BestCandidateIdx(RemainingAt(k), SubSeq(ret, 1, k - 1), RelevanceKey) >= 1

\* C25 (as claimed): in diversify_results the early-stop branch is
\* unreachable: every pass that starts with a nonempty candidate list selects
\* a candidate, for every input.
C25_EarlyStopUnreachable ==
    (Returned("diversify_results") /\ ranked_docs # <<>>) => EveryPassSelects

\* C25 (amended): the early-stop branch is unreachable when every
\* relevance_score of the input is a finite number or absent; the loop then
\* ends only when the candidates are exhausted.
C25_EarlyStopNeedsNonFiniteScore ==
    (Returned("diversify_results") /\ ranked_docs # <<>> /\ FiniteScores(ranked_docs))
        => /\ EveryPassSelects
           /\ Len(ret) = Len(ranked_docs)

\* finite scores, three records, and the last one was selected with a
\* negative mmr_score (0.7 * 0.3 - 0.3 * 1.0)
C25_Witness ==
    /\ Returned("diversify_results")
    /\ FiniteScores(ranked_docs)
    /\ Len(ranked_docs) = 3 /\ Len(ret) = 3
    /\ FGt(Zero, MmrAt(ret[3], 3))

\* the metadata the records of one list are given in the second call
MetadataChoices ==
    { EmptyMeta, Meta(DateVal(0), IntVal(1000)), Meta(StrVal, StrVal) }

\* the list with the metadata of every record replaced
WithMetadata(list, meta) == [i \in 1..Len(list) |-> [list[i] EXCEPT !.metadata = meta]]

\* what a ranking says about order and scores
ScoresOf(list) ==
    [i \in 1..Len(list) |-> <<list[i].document_id, list[i].combined_score>>]

\* C26: rank_results never applies metadata adjustments: a second call whose
\* inputs differ only in the records' metadata gives every document the same
\* combined_score and returns the same order.
C26_MetadataIgnored ==
    Returned("rank_results")
        => \A mt, mv \in MetadataChoices :
              LET other == rank_results(WithMetadata(text_results, mt),
                                        WithMetadata(visual_results, mv),
                                        text_weight, visual_weight)
              IN  other.exc = "none" /\ ScoresOf(other.ret) = ScoresOf(ret)

\* a text match of 0.4 with view_count 1000 kept combined_score 0.4
C26_Witness ==
    /\ Returned("rank_results")
    /\ text_results = <<Renamed(TextRec("doc-123", 40, Meta(Absent, IntVal(1000))))>>
    /\ visual_results = <<>>
    /\ Len(ret) = 1
    /\ ret[1].combined_score = S(40)
    /\ ret[1].metadata = Meta(Absent, IntVal(1000))

\* the positions of a document's entries in text_results
TextEntriesOf(id) == { k \in 1..Len(text_results) : text_results[k].document_id = id }

FirstOf(positions) == CHOOSE k \in positions : \A o \in positions : k <= o

LastOf(positions) == CHOOSE k \in positions : \A o \in positions : k >= o

\* C27: in rank_results a document with several entries in text_results has
\* the similarity_score of its last entry as text_score, also when an
\* earlier entry scored higher, and the filename and metadata of its first
\* entry.
C27_LastScoreFirstIdentity ==
    Returned("rank_results")
        => \A i \in 1..Len(ret) :
              TextEntriesOf(ret[i].document_id) # {}
                 => LET entries == TextEntriesOf(ret[i].document_id)
                    IN  /\ ret[i].text_score = text_results[LastOf(entries)].similarity_score
                        /\ ret[i].filename = text_results[FirstOf(entries)].filename
                        /\ ret[i].metadata = text_results[FirstOf(entries)].metadata

\* doc-123 found at 0.85 and then, renamed and with view_count 1000, at 0.4:
\* text_score 0.4 with the first entry's filename and metadata
C27_Witness ==
    /\ Returned("rank_results")
    /\ text_results = <<TextRec("doc-123", 85, EmptyMeta),
                        Renamed(TextRec("doc-123", 40, Meta(Absent, IntVal(1000))))>>
    /\ Len(ret) = 1
    /\ ret[1].text_score = S(40)
    /\ ret[1].filename = "doc-123.pdf"
    /\ ret[1].metadata = EmptyMeta

\* C29: diversify_results is idempotent on every input with finite scores,
\* similar records included: a second pass over its output returns the same
\* order.
C29_IdempotentFiniteScores ==
    (Returned("diversify_results") /\ FiniteScores(ranked_docs))
        => /\ FiniteScores(ret)
           /\ diversify_results(ret) = ret

\* three records, two of them of the same modality, were reordered and a
\* second pass keeps the new order
C29_Witness ==
    /\ Returned("diversify_results")
    /\ FiniteScores(ranked_docs)
    /\ ~AllDissimilar(ranked_docs)
    /\ Len(ranked_docs) = 3 /\ Len(ret) = 3
    /\ ret # ranked_docs
    /\ diversify_results(ret) = ret

\* the matches of the one query answered
MatchesOf(response_) == IF response_ = <<>> THEN <<>> ELSE response_[1]

\* the matches whose document is stored, in the order of the response
RECURSIVE StoredMatches(_)
StoredMatches(matches) ==
    IF matches = <<>> THEN <<>>
    ELSE (IF Head(matches).id \in DOMAIN store THEN <<Head(matches)>> ELSE <<>>)
            \o StoredMatches(Tail(matches))

\* ret has one record per stored match, in order, with the match's id and
\* distance and match_type "text"
OneRecordPerStoredMatch ==
    LET stored == StoredMatches(MatchesOf(response))
    IN  /\ Len(ret) = Len(stored)
        /\ \A i \in 1..Len(ret) :
              /\ ret[i].document_id = stored[i].id
              /\ ret[i].similarity_score = stored[i].distance
              /\ ret[i].match_type = "text"

\* the index was queried once, with num_neighbors = top_k
QueriedOnce == calls = <<Call("match", top_k)>>

\* C23 (as claimed): search_text_similarity returns one record per index
\* match whose document is stored, in the order of the response, with the
\* match's id, its distance and match_type 'text', and queries the index
\* exactly once with num_neighbors = top_k - on every call.
C23_OneRecordPerStoredMatch ==
    Returned("search_text_similarity") => OneRecordPerStoredMatch /\ QueriedOnce

\* C23 (amended): the same when no call to the index or the store raises;
\* when one raises the function returns [] and has queried the index at
\* most once.
C23_OneRecordPerStoredMatchUnlessRaise ==
    /\ Ended("search_text_similarity") => pc = "return"
    /\ (Returned("search_text_similarity") /\ backend = "ok")
          => OneRecordPerStoredMatch /\ QueriedOnce
    /\ (Returned("search_text_similarity") /\ backend # "ok")
          => ret = <<>> /\ calls \in {<<>>, <<Call("match", top_k)>>}

\* the fixtures of test_search_text_similarity: two matches, both stored
C23_Witness ==
    /\ Returned("search_text_similarity")
    /\ backend = "ok"
    /\ response = <<<<Match("doc-123", 85), Match("doc-456", 75)>>>>
    /\ store = TestStore
    /\ top_k = 2
    /\ Len(ret) = 2
    /\ ret[1].filename = "test_doc1.pdf"

\* C28: in the text search pipeline a returned document whose search
\* similarity_score is s and whose metadata triggers no adjustment has
\* relevance_score s, and a document of higher similarity_score never has a
\* lower relevance_score than one of lower similarity_score.
C28_TextPipelineKeepsScore ==
    Returned("search_by_text")
        => /\ \A i \in 1..Len(ret) :
                 NoAdjustment(ret[i].metadata)
                    => ret[i].relevance_score = ret[i].similarity_score
           /\ \A i, j \in 1..Len(ret) :
                 FGt(ret[i].similarity_score, ret[j].similarity_score)
                    => ~FGt(ret[j].relevance_score, ret[i].relevance_score)

\* the searches find_similar_documents runs: by the stored embeddings of the
\* reference document when document_id is given, else by the text query,
\* else by the image
SearchesText ==
    IF "document_id" \in given THEN store[ReferenceDocument].text_embedding
    ELSE "text_query" \in given

SearchesVisual ==
    IF "document_id" \in given THEN store[ReferenceDocument].visual_embeddings > 0
    ELSE "text_query" \notin given /\ "image_content" \in given

\* rank_results(text_results, visual_results, 0.6, 0.4) on what the two
\* searches found
RankedSearchResults ==
    LET stored == StoredMatches(MatchesOf(response))
        found_text == IF SearchesText
                      THEN [i \in 1..Len(stored) |-> TextResult(stored[i], store[stored[i].id])]
                      ELSE <<>>
        found_visual == IF SearchesVisual
                        THEN Take(SortDesc(visual_results, "similarity_score"), top_k)
                        ELSE <<>>
    IN  rank_results(found_text, found_visual, W(6), W(4)).ret

\* ret is the first top_k records of the ranking, in descending order
TopOfRanking ==
    /\ Len(ret) <= top_k
    /\ Len(ret) <= Len(RankedSearchResults)
    /\ Len(ret) = top_k \/ Len(ret) = Len(RankedSearchResults)
    /\ \A i \in 1..Len(ret) : ret[i] = RankedSearchResults[i]
    /\ \A i, j \in 1..Len(ret) :
          i < j => ~FGt(ret[j].combined_score, ret[i].combined_score)

\* no argument given: ValueError before any embedding or search call
NothingGivenRaises ==
    (Ended("find_similar_documents") /\ given = {})
        => pc = "raise" /\ exc = "ValueError" /\ calls = <<>>

ReferenceMissing == "document_id" \in given /\ ReferenceDocument \notin DOMAIN store

Finished(t) == threads[t].pc \in {"return", "raise"}

\* what the function of thread t returns or raises when it runs alone on
\* the shared lists
Alone(t) ==
    IF threads[t].fn = "rank_document_list"
    THEN rank_document_list(documents, query_context)
    ELSE IF threads[t].fn = "rank_results"
    THEN rank_results(documents, visual_results, W(6), W(4))
    ELSE Return(diversify_results(documents))

\* C21: under any interleaving of two concurrent ranking invocations that
\* share their input lists and records, each invocation returns (or raises)
\* exactly what it would alone, and no step of an invocation writes the
\* shared lists that the other reads.
C21_ConcurrentAsAlone ==
    /\ [](\A t \in Threads :
             Finished(t) => /\ threads[t].ret = Alone(t).ret
                            /\ threads[t].exc = Alone(t).exc)
    /\ [][documents' = documents /\ visual_results' = visual_results]_vars

\* rank_document_list and diversify_results ran interleaved on a list of two
\* documents, the first reordering its copy while the second kept the order
C21_Witness ==
    /\ threads[1].fn = "rank_document_list" /\ threads[2].fn = "diversify_results"
    /\ threads[1].pc = "return" /\ threads[2].pc = "return"
    /\ threads[1].overlapped /\ threads[2].overlapped
    /\ Len(documents) = 2
    /\ threads[1].ret[1].document_id = documents[2].document_id
    /\ threads[2].ret = documents

====
